---- MODULE Spec2Model ----
(***************************************************************************)
(* Model of scripts/build-cards.js: the static-site build that loads card  *)
(* records from CSV and JSON, validates them, computes grades and          *)
(* percentages, renders one detail page per valid record and an index.     *)
(*                                                                         *)
(* Numbers are fixed point, in hundredths (9.25 is 925, the weight 0.8 is  *)
(* 80, the percentage 42.5 is 4250).  The inputs are chosen so that every  *)
(* intermediate value is exact in hundredths.                              *)
(***************************************************************************)
EXTENDS Integers, Sequences, FiniteSets, TLC

VARIABLES
    pc,            \* position of build(): start, loadcsv, loadjson, template, loop, index, done, exited
    exitCode,      \* process exit status: -1 while running, 0 on completion, 1 after process.exit(1)
    csvRows,       \* rows parseCSV returns for the chosen CSV file (<<>> when there is none)
    jsonSrc,       \* what the data directory holds for JSON: cards.json or the loose *.json files
    cardTplExists, \* templates/card.html exists
    indexTplExists,\* templates/index.html exists
    csvCards,      \* build(): const csvCards
    jsonCards,     \* build(): const jsonCards
    cards,         \* build(): const cards
    pos,           \* build(): position of the for..of loop over cards (next record, 1-based)
    tiles,         \* build(): const tiles
    built,         \* build(): let built
    dist,          \* dist/cards/<id>.html: id string -> page, for the files that exist
    indexFile,     \* dist/index.html: the map substituted into the index template, or NoIndex
    skipped,       \* positions of the records reported with "[build] ERROR in card"
    rendered,      \* positions of the records whose detail page was written
    g              \* build(): const g, the grades of the record rendered last

vars == <<pc, exitCode, csvRows, jsonSrc, cardTplExists, indexTplExists, csvCards,
          jsonCards, cards, pos, tiles, built, dist, indexFile, skipped, rendered, g>>

(***************************************************************************)
(* JavaScript values.  A numeric field holds undefined, null, '', a        *)
(* non-numeric string, NaN, a number (or numeric string) or a string       *)
(* "<number>%".  A text field holds undefined or a string.                 *)
(***************************************************************************)
Undef == [k |-> "undef", v |-> 0]
Null == [k |-> "null", v |-> 0]
Blank == [k |-> "blank", v |-> 0]
Text == [k |-> "text", v |-> 0]
NaNVal == [k |-> "nan", v |-> 0]
N(x) == [k |-> "num", v |-> x]
P(x) == [k |-> "pct", v |-> x]

UndefS == [k |-> "undef", s |-> ""]
S(x) == [k |-> "str", s |-> x]

\* x == null / x != null
IsNullish(x) == x.k \in {"undef", "null"}
\* !x for a text field
Falsy(x) == x.k = "undef" \/ x.s = ""
\* a || b for text fields
OrElse(a, b) == IF Falsy(a) THEN b ELSE a

\* A JavaScript number: NaN, or a finite value in hundredths.
NaN == [fin |-> FALSE, v |-> 0]
Fin(x) == [fin |-> TRUE, v |-> x]

\* Number(x)
ToNumber(x) ==
    CASE x.k = "num" -> Fin(x.v)
      [] x.k \in {"null", "blank"} -> Fin(0)
      [] OTHER -> NaN

\* the value a number-typed local holds, as a JavaScript value
NumVal(n) == IF n.fin THEN N(n.v) ELSE NaNVal

Abs(x) == IF x < 0 THEN -x ELSE x
Max(a, b) == IF a > b THEN a ELSE b
Min(a, b) == IF a < b THEN a ELSE b

\* Math.round(x) for x = num/den (den > 0): the nearest integer, halves go up
MathRound(num, den) == (2 * num + den) \div (2 * den)

(***************************************************************************)
(* Displayed strings: '', a decimal numeral with d digits after the point, *)
(* or some other text (a non-numeric string, "NaN", "42%").                *)
(***************************************************************************)
Empty == [k |-> "empty", d |-> 0, v |-> 0]
Raw == [k |-> "raw", d |-> 0, v |-> 0]
Dec(d, x) == [k |-> "dec", d |-> d, v |-> x]

\* digits after the point in String(number)
Decimals(x) == IF x % 100 = 0 THEN 0 ELSE IF x % 10 = 0 THEN 1 ELSE 2

\* String(n) for a JavaScript number
NumToString(n) == IF n.fin THEN Dec(Decimals(n.v), n.v) ELSE Raw

\* String(x) for a value that is not null or undefined
ValToString(x) ==
    CASE x.k = "num" -> Dec(Decimals(x.v), x.v)
      [] x.k = "blank" -> Empty
      [] OTHER -> Raw

\* Number(s) for a displayed string
StringToNumber(s) ==
    CASE s.k = "empty" -> Fin(0)
      [] s.k = "dec" -> Fin(s.v)
      [] OTHER -> NaN

\* safe(s)
safe(x) == IF IsNullish(x) THEN Empty ELSE ValToString(x)

(***************************************************************************)
(* Helpers                                                                 *)
(***************************************************************************)
\* pctOf10(x), on Number(x)
pctOf10(n) ==
    IF ~n.fin THEN Fin(0)
    ELSE Fin(100 * Max(0, Min(100, MathRound(n.v, 10))))

RECURSIVE SumSeq(_)
SumSeq(s) == IF s = <<>> THEN 0 ELSE Head(s).v + SumSeq(Tail(s))

\* nums.filter(Number.isFinite)
FiniteOnly(s) == SelectSeq(s, LAMBDA n : n.fin)

\* x.toFixed(1) read back as a number, x = num/den hundredths (den > 0)
ToFixed1(num, den) ==
    IF num < 0 THEN -(10 * MathRound(-num, 10 * den))
    ELSE 10 * MathRound(num, 10 * den)

\* avg(values), on values.map(Number)
avg(numbers) ==
    LET nums == FiniteOnly(numbers)
    IN  IF Len(nums) = 0 THEN Fin(0)
        ELSE Fin(ToFixed1(SumSeq(nums), Len(nums)))

\* oneDec(n), on Number(n)
oneDec(n) ==
    IF ~n.fin THEN Empty
    ELSE Dec(1, 10 * MathRound(n.v, 10))

\* toPct0to100(n)
toPct0to100(x) ==
    IF IsNullish(x) \/ x.k = "blank" THEN Fin(0)
    ELSE LET v == ToNumber(x)
         IN  IF ~v.fin THEN Fin(0)
             ELSE IF v.v <= 100 THEN Fin(100 * v.v)
             ELSE Fin(100 * MathRound(v.v, 100))

\* toRate0to100(n, def = 0)
toRate0to100(x) ==
    IF IsNullish(x) \/ x.k = "blank" THEN Fin(0)
    ELSE IF x.k \in {"text", "nan"} THEN Fin(0)
    ELSE LET num == Abs(x.v)
         IN  IF x.k = "pct" THEN Fin(Max(0, Min(10000, num)))
             ELSE IF num <= 100 THEN Fin(100 * num)
             ELSE Fin(100 * MathRound(num, 100))

(***************************************************************************)
(* Card records.  A side of c.subgrades: the four direct values and the    *)
(* values of the corners / edges mappings (<<>> when the mapping is absent *)
(* or empty).                                                              *)
(***************************************************************************)
PctKeys == {"f_surface_pct", "f_centering_pct", "f_corners_pct", "f_edges_pct",
            "b_surface_pct", "b_centering_pct", "b_corners_pct", "b_edges_pct"}
Services == {"psa", "sgc", "cgc", "bgs"}

NoSide == [surface |-> Undef, centering |-> Undef, corners_avg |-> Undef,
           edges_avg |-> Undef, corners |-> <<>>, edges |-> <<>>]
NoPcts == [key \in PctKeys |-> Undef]
NoRates == [key \in Services |-> Undef]

\* an object with none of the fields the build reads
NoCard == [origin |-> "none", id |-> UndefS, player |-> UndefS,
           images_front |-> UndefS, images_back |-> UndefS,
           front_img |-> UndefS, back_img |-> UndefS,
           grade_overall |-> Undef, overall_pct_csv |-> Undef,
           weights_front |-> Undef, weights_back |-> Undef,
           front |-> NoSide, back |-> NoSide,
           pcts |-> NoPcts, gemRates |-> NoRates]

\* a CSV row without any of the columns the loader reads
NoRow == [id |-> UndefS, player |-> UndefS, front_img |-> UndefS, back_img |-> UndefS,
          overall_grade |-> Undef, overall_pct |-> Undef,
          f_surface |-> Undef, f_centering |-> Undef,
          f_corners_avg |-> Undef, f_edges_avg |-> Undef,
          b_surface |-> Undef, b_centering |-> Undef,
          b_corners_avg |-> Undef, b_edges_avg |-> Undef,
          pcts |-> NoPcts, gem_rate |-> NoRates]

PlaceholderFront == S("https://via.placeholder.com/420x588?text=Front")
PlaceholderBack == S("https://via.placeholder.com/420x588?text=Back")

\* loadCSVCards: the id of a row
CsvId(r) == OrElse(OrElse(r.id, S("")), S("UNKNOWN"))

\* loadCSVCards: rows.map(r => ...), one row
CsvCard(r) ==
    [origin |-> "csv",
     id |-> CsvId(r),
     player |-> OrElse(r.player, S("")),
     images_front |-> IF Falsy(r.front_img) THEN PlaceholderFront ELSE r.front_img,
     images_back |-> IF Falsy(r.back_img) THEN PlaceholderBack ELSE r.back_img,
     front_img |-> UndefS, back_img |-> UndefS,
     grade_overall |-> IF IsNullish(r.overall_grade) \/ r.overall_grade.k = "blank"
                       THEN Undef ELSE NumVal(ToNumber(r.overall_grade)),
     overall_pct_csv |-> r.overall_pct,
     weights_front |-> Undef, weights_back |-> Undef,
     front |-> [surface |-> r.f_surface, centering |-> r.f_centering,
                corners_avg |-> r.f_corners_avg, edges_avg |-> r.f_edges_avg,
                corners |-> <<>>, edges |-> <<>>],
     back |-> [surface |-> r.b_surface, centering |-> r.b_centering,
               corners_avg |-> r.b_corners_avg, edges_avg |-> r.b_edges_avg,
               corners |-> <<>>, edges |-> <<>>],
     pcts |-> r.pcts,
     gemRates |-> [key \in Services |-> NumVal(toRate0to100(r.gem_rate[key]))]]

\* loadCSVCards
loadCSVCards(rows) == [n \in 1..Len(rows) |-> CsvCard(rows[n])]

(***************************************************************************)
(* A JSON document: ok is FALSE when JSON.parse throws; otherwise the      *)
(* document is an array of recs, or the single object recs[1].             *)
(***************************************************************************)
BadDoc == [ok |-> FALSE, isArray |-> FALSE, recs |-> <<>>]
ObjDoc(o) == [ok |-> TRUE, isArray |-> FALSE, recs |-> <<o>>]
ArrDoc(s) == [ok |-> TRUE, isArray |-> TRUE, recs |-> s]

\* the loop over the files giving up at the first file that fails to parse
RECURSIVE LoadFiles_StopAtBadFile(_)
LoadFiles_StopAtBadFile(files) ==
    IF files = <<>> THEN <<>>
    ELSE LET f == Head(files)
         IN  IF f.ok THEN f.recs \o LoadFiles_StopAtBadFile(Tail(files))
             ELSE <<>>

\* loadJSONCards: the loop over the *.json files of data/
RECURSIVE LoadFiles(_)
LoadFiles(files) ==
    IF files = <<>> THEN <<>>
    ELSE LET f == Head(files)
         IN  IF f.ok THEN f.recs \o LoadFiles(Tail(files))
             ELSE LoadFiles(Tail(files))

\* loadJSONCards: cards.map(c => ({ __origin: 'json', ...c }))
TagJson(s) == [n \in 1..Len(s) |-> [s[n] EXCEPT !.origin = "json"]]

\* loadJSONCards: exit is TRUE when it ends the process with status 1
loadJSONCards(src) ==
    IF src.kind = "aggregate"
    THEN IF src.doc.ok THEN [exit |-> FALSE, cards |-> TagJson(src.doc.recs)]
         ELSE [exit |-> TRUE, cards |-> <<>>]
    ELSE [exit |-> FALSE, cards |-> TagJson(LoadFiles(src.files))]

(***************************************************************************)
(* Validation / Compute                                                    *)
(***************************************************************************)
\* build / validateCard: c.images?.front || c.front_img
FrontImg(c) == OrElse(c.images_front, c.front_img)
BackImg(c) == OrElse(c.images_back, c.back_img)

\* validateCard without its id check
validateCard_ImagesOnly(c) ==
    IF Falsy(FrontImg(c)) \/ Falsy(BackImg(c)) THEN {"missing images.front/back"} ELSE {}

\* validateCard(c): the set of error messages
validateCard(c) ==
    (IF Falsy(c.id) THEN {"missing id"} ELSE {})
    \cup (IF Falsy(FrontImg(c)) \/ Falsy(BackImg(c)) THEN {"missing images.front/back"} ELSE {})

MapNumber(s) == [n \in 1..Len(s) |-> ToNumber(s[n])]

\* computeGrades: x_avg != null ? Number(x_avg) : avg(mapping ?? {})
SubAvg(given, mapping) ==
    IF ~IsNullish(given) THEN ToNumber(given) ELSE avg(MapNumber(mapping))

\* computeGrades: avg([s.surface, s.centering, cornersAvg, edgesAvg])
SectionAvg(side, cornersAvg, edgesAvg) ==
    avg(<<ToNumber(side.surface), ToNumber(side.centering), cornersAvg, edgesAvg>>)

\* Number(w ?? def)
Weight(w, def) == IF IsNullish(w) THEN Fin(def) ELSE ToNumber(w)

\* wf * fSection + wb * bSection
Weighted(wf, fSection, wb, bSection) ==
    IF wf.fin /\ wb.fin /\ fSection.fin /\ bSection.fin
    THEN Fin((wf.v * fSection.v + wb.v * bSection.v) \div 100)
    ELSE NaN

\* computeGrades(c)
computeGrades(c) ==
    LET fCornersAvg == SubAvg(c.front.corners_avg, c.front.corners)
        fEdgesAvg == SubAvg(c.front.edges_avg, c.front.edges)
        bCornersAvg == SubAvg(c.back.corners_avg, c.back.corners)
        bEdgesAvg == SubAvg(c.back.edges_avg, c.back.edges)
        fSection == SectionAvg(c.front, fCornersAvg, fEdgesAvg)
        bSection == SectionAvg(c.back, bCornersAvg, bEdgesAvg)
        wf == Weight(c.weights_front, 80)
        wb == Weight(c.weights_back, 20)
        overall == IF ~IsNullish(c.grade_overall) THEN ToNumber(c.grade_overall)
                   ELSE Weighted(wf, fSection, wb, bSection)
    IN  [fCornersAvg |-> fCornersAvg, fEdgesAvg |-> fEdgesAvg,
         bCornersAvg |-> bCornersAvg, bEdgesAvg |-> bEdgesAvg,
         fSection |-> fSection, bSection |-> bSection,
         overall |-> oneDec(overall)]

(***************************************************************************)
(* Build: the map substituted into the card template, the tile, the paths  *)
(***************************************************************************)
\* safe(s) for a text field
SafeS(x) == IF x.k = "undef" THEN "" ELSE x.s

\* build: gradeOverall
GradeOverall(c) ==
    IF ~IsNullish(c.grade_overall) /\ c.grade_overall.k # "blank"
    THEN oneDec(ToNumber(c.grade_overall))
    ELSE computeGrades(c).overall

\* build: overallPct
OverallPct(c) ==
    IF ~IsNullish(c.overall_pct_csv) /\ c.overall_pct_csv.k # "blank"
    THEN toPct0to100(c.overall_pct_csv)
    ELSE pctOf10(StringToNumber(GradeOverall(c)))

\* build: p.x_pct != null && p.x_pct !== '' ? toPct0to100(p.x_pct) : pctOf10(fallback)
BarPct(p, fallback) ==
    IF ~IsNullish(p) /\ p.k # "blank" THEN toPct0to100(p) ELSE pctOf10(fallback)

\* build: String(c.gemRates?.x ?? 0)
GemRate(x) == IF IsNullish(x) THEN Dec(0, 0) ELSE ValToString(x)

\* build: const map = {...}
CardMap(c) ==
    LET cg == computeGrades(c)
    IN  [id |-> SafeS(c.id),
         player |-> SafeS(c.player),
         front_img |-> SafeS(FrontImg(c)),
         back_img |-> SafeS(BackImg(c)),
         overall_grade |-> GradeOverall(c),
         f_surface |-> safe(c.front.surface),
         f_centering |-> safe(c.front.centering),
         f_corners_avg |-> oneDec(cg.fCornersAvg),
         f_edges_avg |-> oneDec(cg.fEdgesAvg),
         b_surface |-> safe(c.back.surface),
         b_centering |-> safe(c.back.centering),
         b_corners_avg |-> oneDec(cg.bCornersAvg),
         b_edges_avg |-> oneDec(cg.bEdgesAvg),
         overall_pct |-> NumToString(OverallPct(c)),
         f_surface_pct |-> NumToString(BarPct(c.pcts["f_surface_pct"], ToNumber(c.front.surface))),
         f_centering_pct |-> NumToString(BarPct(c.pcts["f_centering_pct"], ToNumber(c.front.centering))),
         f_corners_pct |-> NumToString(BarPct(c.pcts["f_corners_pct"], cg.fCornersAvg)),
         f_edges_pct |-> NumToString(BarPct(c.pcts["f_edges_pct"], cg.fEdgesAvg)),
         b_surface_pct |-> NumToString(BarPct(c.pcts["b_surface_pct"], ToNumber(c.back.surface))),
         b_centering_pct |-> NumToString(BarPct(c.pcts["b_centering_pct"], ToNumber(c.back.centering))),
         b_corners_pct |-> NumToString(BarPct(c.pcts["b_corners_pct"], cg.bCornersAvg)),
         b_edges_pct |-> NumToString(BarPct(c.pcts["b_edges_pct"], cg.bEdgesAvg)),
         psa_gem_rate |-> GemRate(c.gemRates["psa"]),
         sgc_gem_rate |-> GemRate(c.gemRates["sgc"]),
         cgc_gem_rate |-> GemRate(c.gemRates["cgc"]),
         bgs_gem_rate |-> GemRate(c.gemRates["bgs"])]

\* build: `/cards/${c.id}.html`
Href(id) == "/cards/" \o id \o ".html"

\* build: path.join(DIRS.dist, 'cards', `${c.id}.html`), relative to the project root
OutPath(id) == "dist/cards/" \o id \o ".html"

\* build: tiles.push({...})
Tile(c) == [id |-> SafeS(c.id), href |-> Href(SafeS(c.id)),
            img |-> SafeS(FrontImg(c)), player |-> SafeS(c.player)]

\* the two sources concatenated the other way round
AllCards_JsonFirst(csv, json) == json \o csv

\* build: const cards = [...csvCards, ...jsonCards]
AllCards(csv, json) == csv \o json

\* dist/index.html is absent
NoIndex == [exists |-> FALSE, cards |-> <<>>, count |-> Dec(0, 0), fallback |-> FALSE]

\* the index counting every loaded record instead of every tile
IndexMap_CountsLoaded(ts, haveTpl) ==
    [exists |-> TRUE, cards |-> ts, count |-> Dec(0, 100 * Len(cards)), fallback |-> ~haveTpl]

\* build: tpl(indexTpl, { cards: cardsHtml, count: String(tiles.length) })
IndexMap(ts, haveTpl) ==
    [exists |-> TRUE, cards |-> ts, count |-> Dec(0, 100 * Len(ts)), fallback |-> ~haveTpl]

\* a write that leaves an existing file as it is
WriteFile_KeepExisting(files, path, page) ==
    [q \in (DOMAIN files) \cup {path} |-> IF q \in DOMAIN files THEN files[q] ELSE page]

\* write(p, s): the files of dist/cards after writing page at path
WriteFile(files, path, page) ==
    [q \in (DOMAIN files) \cup {path} |-> IF q = path THEN page ELSE files[q]]

\* no file
NoFiles == [q \in {} |-> NoIndex]

(***************************************************************************)
(* The steps of build()                                                    *)
(***************************************************************************)
\* fs.rmSync(DIRS.dist), fs.mkdirSync(DIRS.dist), copyPublic()
Clean ==
    /\ pc = "start"
    /\ dist' = NoFiles
    /\ indexFile' = NoIndex
    /\ pc' = "loadcsv"
    /\ UNCHANGED <<exitCode, csvRows, jsonSrc, cardTplExists, indexTplExists, csvCards,
                   jsonCards, cards, pos, tiles, built, skipped, rendered, g>>

\* const csvCards = loadCSVCards()
LoadCSV ==
    /\ pc = "loadcsv"
    /\ csvCards' = loadCSVCards(csvRows)
    /\ pc' = "loadjson"
    /\ UNCHANGED <<exitCode, csvRows, jsonSrc, cardTplExists, indexTplExists,
                   jsonCards, cards, pos, tiles, built, dist, indexFile, skipped, rendered, g>>

\* const jsonCards = loadJSONCards(); const cards = [...csvCards, ...jsonCards]
LoadJSON ==
    /\ pc = "loadjson"
    /\ ~loadJSONCards(jsonSrc).exit
    /\ jsonCards' = loadJSONCards(jsonSrc).cards
    /\ cards' = AllCards(csvCards, jsonCards')
    /\ pc' = "template"
    /\ UNCHANGED <<exitCode, csvRows, jsonSrc, cardTplExists, indexTplExists, csvCards,
                   pos, tiles, built, dist, indexFile, skipped, rendered, g>>

\* loadJSONCards: process.exit(1) on an unparsable data/cards.json
LoadJSONFatal ==
    /\ pc = "loadjson"
    /\ loadJSONCards(jsonSrc).exit
    /\ pc' = "exited"
    /\ exitCode' = 1
    /\ UNCHANGED <<csvRows, jsonSrc, cardTplExists, indexTplExists, csvCards, jsonCards,
                   cards, pos, tiles, built, dist, indexFile, skipped, rendered, g>>

\* the template check left out
CardTemplateMissing_Never == FALSE

\* build: if (!exists(cardTplPath))
CardTemplateMissing == ~cardTplExists

\* build: the card template exists; const tiles = []; let built = 0
TemplateOk ==
    /\ pc = "template"
    /\ ~CardTemplateMissing
    /\ tiles' = <<>>
    /\ built' = 0
    /\ pos' = 1
    /\ skipped' = {}
    /\ rendered' = {}
    /\ pc' = "loop"
    /\ UNCHANGED <<exitCode, csvRows, jsonSrc, cardTplExists, indexTplExists, csvCards,
                   jsonCards, cards, dist, indexFile, g>>

\* build: process.exit(1) on a missing templates/card.html
TemplateFatal ==
    /\ pc = "template"
    /\ CardTemplateMissing
    /\ pc' = "exited"
    /\ exitCode' = 1
    /\ UNCHANGED <<csvRows, jsonSrc, cardTplExists, indexTplExists, csvCards, jsonCards,
                   cards, pos, tiles, built, dist, indexFile, skipped, rendered, g>>

\* build: if (errs.length) { console.error(...); continue; }
HasErrors(c) == validateCard(c) # {}

\* one iteration of the loop on a record with errors
SkipCard ==
    /\ pc = "loop"
    /\ pos <= Len(cards)
    /\ HasErrors(cards[pos])
    /\ skipped' = skipped \cup {pos}
    /\ pos' = pos + 1
    /\ UNCHANGED <<pc, exitCode, csvRows, jsonSrc, cardTplExists, indexTplExists, csvCards,
                   jsonCards, cards, tiles, built, dist, indexFile, rendered, g>>

\* one iteration of the loop on a valid record: write the page, built++, tiles.push
RenderCard ==
    /\ pc = "loop"
    /\ pos <= Len(cards)
    /\ ~HasErrors(cards[pos])
    /\ g' = computeGrades(cards[pos])
    /\ rendered' = rendered \cup {pos}
    /\ dist' = WriteFile(dist, OutPath(SafeS(cards[pos].id)), CardMap(cards[pos]))
    /\ built' = built + 1
    /\ tiles' = Append(tiles, Tile(cards[pos]))
    /\ pos' = pos + 1
    /\ UNCHANGED <<pc, exitCode, csvRows, jsonSrc, cardTplExists, indexTplExists, csvCards,
                   jsonCards, cards, indexFile, skipped>>

\* after the loop: write dist/index.html, log the built count, end with status 0
WriteIndex ==
    /\ pc = "loop"
    /\ pos > Len(cards)
    /\ indexFile' = IndexMap(tiles, indexTplExists)
    /\ pc' = "done"
    /\ exitCode' = 0
    /\ UNCHANGED <<csvRows, jsonSrc, cardTplExists, indexTplExists, csvCards, jsonCards,
                   cards, pos, tiles, built, dist, skipped, rendered, g>>

Next ==
    \/ Clean
    \/ LoadCSV
    \/ LoadJSON
    \/ LoadJSONFatal
    \/ TemplateOk
    \/ TemplateFatal
    \/ SkipCard
    \/ RenderCard
    \/ WriteIndex

(***************************************************************************)
(* Inputs: what the data and templates directories hold when build() runs  *)
(***************************************************************************)
MaxCsv == 2      \* most rows in the CSV file
MaxJson == 2     \* most records in the array of data/cards.json
MaxFiles == 2    \* most loose *.json files in data/

\* sequences over set of length at most n
RECURSIVE SeqsUpTo(_, _)
SeqsUpTo(set, n) ==
    IF n = 0 THEN {<<>>}
    ELSE LET shorter == SeqsUpTo(set, n - 1)
         IN  shorter \cup {Append(s, x) : s \in {q \in shorter : Len(q) = n - 1}, x \in set}

Ids == {UndefS, S(""), S("a"), S("b")}

\* rows of the CSV file: no id column, a blank id, an id; image columns left blank
CsvRowSet == {[NoRow EXCEPT !.id = i, !.player = S("csv player"),
                            !.front_img = S(""), !.overall_grade = N(950)] :
                 i \in {UndefS, S(""), S("a")}}

\* a JSON object with its images under images.front / images.back
Nested(i) == [NoCard EXCEPT !.id = i, !.player = S("json player"),
                            !.images_front = S("/cards/front.jpg"),
                            !.images_back = S("/cards/back.jpg"),
                            !.front = [NoSide EXCEPT !.surface = N(900)]]
\* a JSON object with flat front_img / back_img fields
Flat(i) == [NoCard EXCEPT !.id = i, !.player = S("flat player"),
                          !.front_img = S("/cards/f.jpg"), !.back_img = S("/cards/b.jpg")]
\* a JSON object without a back image
NoBack(i) == [NoCard EXCEPT !.id = i, !.images_front = S("/cards/front.jpg")]

JsonObjSet == {Nested(i) : i \in Ids} \cup {Flat(S("a"))}

\* data/cards.json: unparsable, one object, or an array
AggregateSet ==
    {[kind |-> "aggregate", doc |-> d, files |-> <<>>] :
        d \in {BadDoc} \cup {ObjDoc(o) : o \in JsonObjSet}
              \cup {ArrDoc(s) : s \in SeqsUpTo(JsonObjSet, MaxJson)}}

\* a loose file: unparsable, one object, an empty array, an array of two
FileDocSet == {BadDoc, ObjDoc(Nested(S("a"))), ObjDoc(NoBack(S("b"))), ArrDoc(<<>>),
               ArrDoc(<<Nested(S("b")), Nested(UndefS)>>)}

\* no data/cards.json: the loose *.json files, in readdir order
FilesSet ==
    {[kind |-> "files", doc |-> BadDoc, files |-> fs] : fs \in SeqsUpTo(FileDocSet, MaxFiles)}

\* dist/ as an earlier build left it
StaleFiles == (OutPath("a") :> CardMap(Flat(S("a"))) @@ OutPath("old") :> CardMap(Nested(S("old"))))
StaleIndex == IndexMap(<<Tile(Flat(S("a"))), Tile(Nested(S("old")))>>, TRUE)

\* build(): g before the first record is rendered
NoGrades == [fCornersAvg |-> NaN, fEdgesAvg |-> NaN, bCornersAvg |-> NaN, bEdgesAvg |-> NaN,
             fSection |-> NaN, bSection |-> NaN, overall |-> Empty]

\* the state before build() runs, for given inputs
Start(rows, src, cardTpl, indexTpl) ==
    /\ pc = "start"
    /\ exitCode = -1
    /\ csvRows = rows
    /\ jsonSrc = src
    /\ cardTplExists = cardTpl
    /\ indexTplExists = indexTpl
    /\ csvCards = <<>>
    /\ jsonCards = <<>>
    /\ cards = <<>>
    /\ pos = 1
    /\ tiles = <<>>
    /\ built = 0
    /\ dist = StaleFiles
    /\ indexFile = StaleIndex
    /\ skipped = {}
    /\ rendered = {}
    /\ g = NoGrades

\* templates/card.html and templates/index.html: both, the first only, the
\* second only (without the first the second is never looked for)
TemplateCases == {<<TRUE, TRUE>>, <<TRUE, FALSE>>, <<FALSE, TRUE>>}

\* builds over CSV rows and data/cards.json
InitAggregate ==
    \E rows \in SeqsUpTo(CsvRowSet, MaxCsv), src \in AggregateSet, tpls \in TemplateCases :
        Start(rows, src, tpls[1], tpls[2])

\* builds over CSV rows and loose JSON files
InitFiles ==
    \E rows \in SeqsUpTo(CsvRowSet, MaxCsv), src \in FilesSet, cardTpl \in BOOLEAN :
        Start(rows, src, cardTpl, TRUE)

(***************************************************************************)
(* Builds of a single record whose grading fields vary                     *)
(***************************************************************************)
FrontSides ==
    {[surface |-> a, centering |-> b, corners_avg |-> c, edges_avg |-> d,
      corners |-> e, edges |-> f] :
        a \in {Undef, Null, Blank, Text, N(900), N(925)},
        b \in {Undef, Blank, N(1000)},
        c \in {Undef, Blank, N(850)},
        d \in {Undef, N(950)},
        e \in {<<>>, <<N(900), N(1000)>>, <<Text, N(800)>>},
        f \in {<<>>, <<N(800), Text>>}}

FullSide == [surface |-> N(900), centering |-> N(1000), corners_avg |-> N(850),
             edges_avg |-> N(950), corners |-> <<>>, edges |-> <<>>]
MapSide == [NoSide EXCEPT !.surface = N(800), !.corners = <<N(700), N(800)>>]

\* JSON objects whose front subgrades vary
SubgradeObjSet ==
    {[Nested(S("a")) EXCEPT !.front = f, !.back = b] :
        f \in FrontSides, b \in {NoSide, FullSide}}

\* JSON objects whose overall grade, weights and gem rate vary
OverallObjSet ==
    {[Nested(S("a")) EXCEPT !.grade_overall = o, !.weights_front = w[1],
                            !.weights_back = w[2], !.front = f, !.back = b,
                            !.gemRates = [NoRates EXCEPT !["psa"] = r]] :
        o \in {Undef, Null, Blank, Text, N(950), N(925)},
        w \in {<<Undef, Undef>>, <<N(60), N(40)>>, <<N(100), Undef>>},
        f \in {NoSide, FullSide, MapSide},
        b \in {NoSide, FullSide, MapSide},
        r \in {Undef, N(4200), N(15000), Text}}

\* CSV rows whose grade and percentage columns vary
PctRowSet ==
    {[NoRow EXCEPT !.id = S("a"), !.overall_grade = o, !.overall_pct = op,
                   !.f_surface = fs,
                   !.pcts = [NoPcts EXCEPT !["f_surface_pct"] = fp, !["b_edges_pct"] = bp],
                   !.gem_rate = [NoRates EXCEPT !["psa"] = r1, !["bgs"] = r2]] :
        o \in {Undef, Blank, N(950)},
        op \in {Undef, Blank, N(92), N(9200), N(9250), N(15000), N(-500)},
        fs \in {Undef, Blank, N(900)},
        fp \in {Undef, N(85), N(12000)},
        bp \in {Undef, N(8800)},
        r1 \in {Undef, Blank, P(4200), P(15000), P(4250), N(42), N(15000)},
        r2 \in {Undef, N(50)}}

NoJson == [kind |-> "files", doc |-> BadDoc, files |-> <<>>]

InitGrading ==
    \/ \E o \in SubgradeObjSet \cup OverallObjSet :
          Start(<<>>, [kind |-> "aggregate", doc |-> ObjDoc(o), files |-> <<>>], TRUE, TRUE)
    \/ \E r \in PctRowSet : Start(<<r>>, NoJson, TRUE, TRUE)

Init == InitAggregate \/ InitFiles \/ InitGrading

Spec == Init /\ [][Next]_vars

(***************************************************************************)
(* Properties                                                              *)
(***************************************************************************)
\* the records the loop has gone through
Processed == IF pc \in {"loop", "done"} THEN 1..(pos - 1) ELSE {}

\* the record at position n lacks an id
LacksId(n) == cards[n].id.k = "undef" \/ cards[n].id.s = ""

\* the record at position n has a front and a back image
HasImages(n) ==
    /\ \/ cards[n].images_front.k = "str" /\ cards[n].images_front.s # ""
       \/ cards[n].front_img.k = "str" /\ cards[n].front_img.s # ""
    /\ \/ cards[n].images_back.k = "str" /\ cards[n].images_back.s # ""
       \/ cards[n].back_img.k = "str" /\ cards[n].back_img.s # ""

\* the record at position n has an id and both images
IsValid(n) == ~LacksId(n) /\ HasImages(n)

\* the tiles pushed for the positions in set, in position order
RECURSIVE TilesOf(_, _)
TilesOf(n, set) ==
    IF n = 0 THEN <<>>
    ELSE IF n \in set THEN Append(TilesOf(n - 1, set), Tile(cards[n]))
    ELSE TilesOf(n - 1, set)

\* the index excludes the records outside rendered and lists the others
IndexListsRendered ==
    pc = "done" =>
        /\ indexFile.exists
        /\ indexFile.cards = TilesOf(Len(cards), rendered)
        /\ indexFile.count = Dec(0, 100 * Cardinality(rendered))

\* C1 as stated: every processed record whose input id is absent or empty,
\* from a CSV row or a JSON object, has a validation error and no page, is not
\* in the index, and every other valid record is rendered.
C1_NoIdNeverRendered ==
    /\ \A n \in Processed :
        /\ (n <= Len(csvRows) /\ (csvRows[n].id.k = "undef" \/ csvRows[n].id.s = ""))
              => validateCard(cards[n]) # {} /\ n \notin rendered
        /\ (n > Len(csvRows) /\ LacksId(n))
              => validateCard(cards[n]) # {} /\ n \notin rendered
    /\ IndexListsRendered

\* C1 amended: a JSON record whose id is absent or empty has a validation
\* error, is reported and skipped, gets no page and no tile, while every valid
\* record of the build is rendered; a CSV row whose id is absent or empty is
\* loaded with the id UNKNOWN, passes validation and is rendered to
\* cards/UNKNOWN.html and listed in the index.
C1_JsonNoIdSkipped_CsvNoIdUnknown ==
    /\ \A n \in Processed :
        /\ (cards[n].origin = "json" /\ LacksId(n))
              => /\ validateCard(cards[n]) # {}
                 /\ n \notin rendered
                 /\ n \in skipped
        /\ IsValid(n) => n \in rendered
        /\ (n <= Len(csvRows) /\ (csvRows[n].id.k = "undef" \/ csvRows[n].id.s = ""))
              => /\ cards[n].origin = "csv"
                 /\ cards[n].id = S("UNKNOWN")
                 /\ validateCard(cards[n]) = {}
                 /\ n \in rendered
                 /\ OutPath("UNKNOWN") \in DOMAIN dist
    /\ \A path \in DOMAIN dist :
        pc \in {"loop", "done"} => \E n \in rendered : path = OutPath(cards[n].id.s)
    /\ IndexListsRendered

\* C1 witness: a finished build with a skipped JSON record without id, a
\* rendered CSV row without id and another rendered valid JSON record
C1_Witness ==
    /\ pc = "done"
    /\ \E n \in skipped : cards[n].origin = "json" /\ LacksId(n)
    /\ \E n \in rendered : n <= Len(csvRows) /\ csvRows[n].id.s = ""
    /\ \E n \in rendered : cards[n].origin = "json"

\* the ids of the loaded records are pairwise distinct
DistinctIds == \A m, n \in 1..Len(cards) : m # n => cards[m].id # cards[n].id

\* C2: when CSV and JSON both supply records, all valid with pairwise
\* distinct ids, the finished build has exactly one page per record and one
\* tile per record, the CSV tiles first, each source in its own order.
C2_OnePageAndTilePerRecord_CsvFirst ==
    (/\ pc = "done"
     /\ Len(csvCards) > 0 /\ Len(jsonCards) > 0
     /\ \A n \in 1..Len(cards) : IsValid(n)
     /\ DistinctIds)
    => /\ Cardinality(DOMAIN dist) = Len(csvCards) + Len(jsonCards)
       /\ \A n \in 1..Len(csvCards) : dist[OutPath(csvCards[n].id.s)] = CardMap(csvCards[n])
       /\ \A n \in 1..Len(jsonCards) : dist[OutPath(jsonCards[n].id.s)] = CardMap(jsonCards[n])
       /\ Len(indexFile.cards) = Len(csvCards) + Len(jsonCards)
       /\ \A n \in 1..Len(csvCards) : indexFile.cards[n] = Tile(csvCards[n])
       /\ \A n \in 1..Len(jsonCards) :
            indexFile.cards[Len(csvCards) + n] = Tile(jsonCards[n])

\* C2 witness: a finished build of two CSV rows and a JSON record, all valid,
\* with three distinct ids
C2_Witness ==
    /\ pc = "done"
    /\ Len(csvCards) = 2 /\ Len(jsonCards) > 0
    /\ \A n \in 1..Len(cards) : IsValid(n)
    /\ DistinctIds

\* data/cards.json exists and cannot be parsed
AggregateUnparsable == jsonSrc.kind = "aggregate" /\ ~jsonSrc.doc.ok

\* C3: with an unparsable data/cards.json or without templates/card.html the
\* build never reaches the rendering loop, ends with status 1 and not 0, and
\* after dist/ was cleared no detail page and no index.html exists.
C3_FatalBeforeRendering ==
    ((AggregateUnparsable \/ ~cardTplExists) /\ pc # "start")
    => /\ pc \in {"loadcsv", "loadjson", "template", "exited"}
       /\ exitCode # 0
       /\ pc = "exited" => exitCode = 1
       /\ pc = "template" => ~ENABLED TemplateOk
       /\ pc = "loadjson" /\ AggregateUnparsable => ~ENABLED LoadJSON
       /\ DOMAIN dist = {}
       /\ ~indexFile.exists
       /\ rendered = {}

\* C3 witness: the build has exited on a missing card template although valid
\* records were loaded
C3_Witness ==
    /\ pc = "exited" /\ exitCode = 1
    /\ ~cardTplExists
    /\ \E n \in 1..Len(cards) : IsValid(n)

\* every percentage field of a page
PctFields == {"overall_pct", "f_surface_pct", "f_centering_pct", "f_corners_pct",
              "f_edges_pct", "b_surface_pct", "b_centering_pct", "b_corners_pct",
              "b_edges_pct", "psa_gem_rate", "sgc_gem_rate", "cgc_gem_rate", "bgs_gem_rate"}

\* the displayed string is an integer numeral between 0 and 100
IsIntPct(s) == s.k = "dec" /\ s.d = 0 /\ s.v >= 0 /\ s.v <= 10000

\* C4 as stated: every percentage substituted into a page written by this
\* build is an integer in [0,100].
C4_PercentagesAreIntegers0to100 ==
    pc \in {"loop", "done"} =>
        \A path \in DOMAIN dist : \A f \in PctFields : IsIntPct(dist[path][f])

\* the position whose rendering the page of its id holds at the end
LastOfItsId(n) == \A m \in rendered : cards[m].id = cards[n].id => m <= n

\* an explicit overall grade is supplied on the record
OverallSupplied(c) == c.grade_overall.k \notin {"undef", "null", "blank"}

\* the overall grade the claim describes, to one decimal place
ClaimedOverall(c) ==
    IF OverallSupplied(c)
    THEN oneDec(ToNumber(c.grade_overall))
    ELSE LET gr == computeGrades(c)
             wf == IF c.weights_front.k \in {"undef", "null"} THEN Fin(80)
                   ELSE ToNumber(c.weights_front)
             wb == IF c.weights_back.k \in {"undef", "null"} THEN Fin(20)
                   ELSE ToNumber(c.weights_back)
         IN  IF wf.fin /\ wb.fin
             THEN oneDec(Fin((wf.v * gr.fSection.v + wb.v * gr.bSection.v) \div 100))
             ELSE Empty

\* C5 as stated: the overall grade on a page is the record's explicit
\* grade_overall when one is supplied, and otherwise weights.front x front
\* section average + weights.back x back section average (defaults 0.8, 0.2).
C5_OverallExplicitOrWeighted ==
    \A n \in rendered :
        LastOfItsId(n) =>
            dist[OutPath(cards[n].id.s)].overall_grade = ClaimedOverall(cards[n])

\* every grade field of a page
GradeFields == {"overall_grade", "f_surface", "f_centering", "f_corners_avg", "f_edges_avg",
                "b_surface", "b_centering", "b_corners_avg", "b_edges_avg"}

\* the numeric input of a directly displayed grade is missing
MissingValue(x) == x.k \in {"undef", "null", "blank"}

\* the numeric input of a corner or edge average is missing
MissingAvg(given, mapping) == MissingValue(given) /\ mapping = <<>>

\* C6 as stated: every grade substituted into a page written by this build is
\* a numeral with exactly one digit after the point, and a grade whose
\* numeric input is missing is the empty string.
C6_GradesHaveOneDecimal ==
    pc \in {"loop", "done"} =>
        /\ \A path \in DOMAIN dist : \A f \in GradeFields :
            \/ dist[path][f].k = "dec" /\ dist[path][f].d = 1
            \/ dist[path][f].k = "empty"
        /\ \A n \in rendered :
            LastOfItsId(n) =>
                LET page == dist[OutPath(cards[n].id.s)]
                    c == cards[n]
                IN  /\ MissingValue(c.front.surface) => page.f_surface = Empty
                    /\ MissingValue(c.front.centering) => page.f_centering = Empty
                    /\ MissingValue(c.back.surface) => page.b_surface = Empty
                    /\ MissingValue(c.back.centering) => page.b_centering = Empty
                    /\ MissingAvg(c.front.corners_avg, c.front.corners)
                          => page.f_corners_avg = Empty
                    /\ MissingAvg(c.front.edges_avg, c.front.edges)
                          => page.f_edges_avg = Empty
                    /\ MissingAvg(c.back.corners_avg, c.back.corners)
                          => page.b_corners_avg = Empty
                    /\ MissingAvg(c.back.edges_avg, c.back.edges)
                          => page.b_edges_avg = Empty

\* the values of a files list that parse, file by file
RECURSIVE ParsedRecords(_, _)
ParsedRecords(files, n) ==
    IF n = 0 THEN <<>>
    ELSE ParsedRecords(files, n - 1) \o (IF files[n].ok THEN files[n].recs ELSE <<>>)

\* C7: without data/cards.json the build is not ended by the loader, and the
\* JSON records are those of the files that parse, in file order, each file
\* giving its object or the elements of its array; a file that fails to parse
\* gives none.
C7_BadFileSkipped_OthersLoaded ==
    (jsonSrc.kind = "files" /\ pc \in {"template", "loop", "done", "exited"})
    => /\ pc = "exited" => ~cardTplExists
       /\ Len(jsonCards) = Len(ParsedRecords(jsonSrc.files, Len(jsonSrc.files)))
       /\ \A n \in 1..Len(jsonCards) :
            /\ jsonCards[n].origin = "json"
            /\ [jsonCards[n] EXCEPT !.origin = "none"]
                   = ParsedRecords(jsonSrc.files, Len(jsonSrc.files))[n]
       /\ pc # "exited" => cards = csvCards \o jsonCards

\* C7 witness: an unparsable file between two files that parse, all records
\* of the two loaded
C7_Witness ==
    /\ jsonSrc.kind = "files" /\ pc = "done"
    /\ Len(jsonSrc.files) = 2
    /\ ~jsonSrc.files[1].ok
    /\ jsonSrc.files[2].ok /\ jsonSrc.files[2].isArray /\ Len(jsonSrc.files[2].recs) = 2
    /\ Len(jsonCards) = 2

\* the usable ones of the four values of a side, as the claim counts them
ClaimedSectionValues(side, cornersAvg, edgesAvg) ==
    LET four == <<side.surface, side.centering,
                  IF side.corners_avg.k \in {"undef", "null"} THEN NumVal(cornersAvg)
                  ELSE side.corners_avg,
                  IF side.edges_avg.k \in {"undef", "null"} THEN NumVal(edgesAvg)
                  ELSE side.edges_avg>>
    IN  SelectSeq(four, LAMBDA x : x.k = "num")

\* the mean of the usable values to one decimal place, 0 when there is none
ClaimedSection(side, cornersAvg, edgesAvg) ==
    LET usable == ClaimedSectionValues(side, cornersAvg, edgesAvg)
    IN  IF Len(usable) = 0 THEN Fin(0)
        ELSE Fin(10 * ((2 * SumSeq(usable) + 10 * Len(usable)) \div (20 * Len(usable))))

\* C8 as stated: the section averages computed for the record rendered last
\* are the means of the present and finite ones of surface, centering, corner
\* average and edge average; blank and non-numeric values are left out.
C8_SectionIsMeanOfUsable ==
    \A n \in rendered :
        (\A m \in rendered : m <= n) =>
            /\ g.fSection = ClaimedSection(cards[n].front, g.fCornersAvg, g.fEdgesAvg)
            /\ g.bSection = ClaimedSection(cards[n].back, g.bCornersAvg, g.bEdgesAvg)

\* C9: two valid records with the same id are both rendered, neither is
\* skipped, each gets its tile in input order, and once both are written the
\* page of that id is the rendering of the later one.
C9_SameIdBothRendered_LaterWins ==
    \A m, n \in Processed :
        (m < n /\ IsValid(m) /\ IsValid(n) /\ cards[m].id = cards[n].id)
        => /\ m \in rendered /\ n \in rendered
           /\ m \notin skipped /\ n \notin skipped
           /\ tiles = TilesOf(pos - 1, rendered)
           /\ (\A q \in Processed : q > n => cards[q].id # cards[n].id)
                 => dist[OutPath(cards[n].id.s)] = CardMap(cards[n])

\* C9 witness: a finished build with two valid records of one id and
\* different renderings
C9_Witness ==
    /\ pc = "done"
    /\ \E m, n \in rendered :
        /\ m < n
        /\ cards[m].id = cards[n].id
        /\ CardMap(cards[m]) # CardMap(cards[n])
        /\ dist[OutPath(cards[n].id.s)] = CardMap(cards[n])

\* the positions of the loaded records that pass validation
ValidPositions == {n \in 1..Len(cards) : IsValid(n)}

\* C10: after a completed build the count in the index, the number of tiles
\* and the built count all equal the number of loaded records that pass
\* validation, the tiles are those records' tiles in input order, and every
\* tile links to a detail page that this build wrote.
C10_IndexAgreesWithBuilt ==
    pc = "done" =>
        /\ exitCode = 0
        /\ indexFile.exists
        /\ indexFile.count = Dec(0, 100 * Cardinality(ValidPositions))
        /\ Len(indexFile.cards) = Cardinality(ValidPositions)
        /\ built = Cardinality(ValidPositions)
        /\ indexFile.cards = TilesOf(Len(cards), ValidPositions)
        /\ \A k \in 1..Len(indexFile.cards) :
            /\ ("dist" \o indexFile.cards[k].href) \in DOMAIN dist
            /\ \E n \in rendered :
                 dist["dist" \o indexFile.cards[k].href].id = cards[n].id.s

\* C10 witness: a completed build with rendered and skipped records
C10_Witness ==
    /\ pc = "done"
    /\ Cardinality(rendered) >= 2
    /\ skipped # {}
    /\ Len(indexFile.cards) = Cardinality(rendered)

====
